---- MODULE Spec2Model ----
(***************************************************************************)
(* UNICONNECT real-time layer (src/socket/socketHandler.js, lines 1-240):  *)
(* the authentication middleware, the connection registry connectedUsers,  *)
(* room membership, the inbound event handlers and the exported accessors. *)
(*                                                                         *)
(* Conventions.                                                            *)
(*  - A socket is a slot c \in Conns; socket.id is SocketId(c).  Slots are  *)
(*    taken in ascending order (ids are opaque, so this loses nothing).    *)
(*  - A Mongo ObjectId is the 1-tuple <<hex>>; its toString() is the hex.   *)
(*  - A JS object is a function from field names to strings; reading a     *)
(*    field that is absent gives Undefined.  An event's arguments are a    *)
(*    tuple: <<data>> when the client sent a payload, <<>> when it sent    *)
(*    none (data is then undefined and data.x throws a TypeError).         *)
(*  - outbox is the sequence of deliveries made by the callback that ran    *)
(*    last, each [to, event, payload], and lastOp names that callback;     *)
(*    both are cleared when the packets are written out (Flush).  Payload  *)
(*    values are as serialised on the wire (ObjectId and Date are text).   *)
(*  - Clients name application rooms only (RoomArgs); the rooms named by   *)
(*    socket ids are joined by the transport at connect and are not named  *)
(*    by join_room / leave_room requests.                                  *)
(***************************************************************************)
EXTENDS Integers, Sequences, FiniteSets, TLC

VARIABLES
    sockets,         \* per slot: handshake state, token, socket.userId, socket.user
    rooms,           \* per slot: the set of room names the socket is joined to
    connectedUsers,  \* the Map of line 6, as its sequence of entries in insertion order
    outbox,          \* deliveries made by the callback that ran last, until flushed
    lastOp,          \* that callback: [kind, conn, args], NoOp between callbacks
    now,             \* the server clock read by new Date(), in units that separate
                     \* successive admissions: it advances when a socket is admitted
    roomOps,         \* number of join_room / leave_room requests served so far
    uncaught,        \* TRUE once an exception escaped a handler (the process is gone)
    inbox,           \* per socket: the events its client has sent that the server has
                     \* not handed to a handler yet, each with its number in that
                     \* socket's sending order
    sent,            \* per socket: how many events its client has sent
    seen,            \* per receiving socket and sending socket: the numbers of the
                     \* sender's events whose deliveries the receiver got, in order
    touch,           \* per socket: the state of the User.findByIdAndUpdate calls of
                     \* its admission and of its disconnect (none, pending, settled)
    errors,          \* the console.error calls made so far: [conn, at]
    amaSessions,     \* routes/chat.js: the Map of AMA sessions, as its entries
    idForm,          \* what req.user._id is in the HTTP routes: a fresh ObjectId
                     \* object per request, or a string
    question,        \* the stored Question document: its likes array and its __v
    likeReqs,        \* per request slot of POST /:id/like: the document it loaded
    users,           \* the in-memory server's users array
    res,             \* the HTTP response sent last
    reqs             \* number of HTTP requests served so far

vars ==
    <<sockets, rooms, connectedUsers, outbox, lastOp, now, roomOps, uncaught,
      inbox, sent, seen, touch, errors,
      amaSessions, idForm, question, likeReqs, users, res, reqs>>

\* the variables of the inbound event stream
Inbound == <<inbox, sent, seen>>

\* the variables of the last-seen updates and of the error log
Touches == <<touch, errors>>

\* the variables of the HTTP routes
Http == <<amaSessions, idForm, question, likeReqs, users, res, reqs>>

\* the variables of the socket layer
Realtime ==
    <<sockets, rooms, connectedUsers, outbox, lastOp, now, roomOps, uncaught,
      Inbound, Touches>>

-----------------------------------------------------------------------------
(* Bounds *)

MaxConn == 2        \* socket slots
MaxRoomOps == 2     \* join_room / leave_room requests
MaxSend == 2        \* events one client queues on its socket
MaxReq == 5         \* HTTP requests served
MaxInFlight == 2    \* like requests between their load and their save

LikeSlots == 1..MaxInFlight

Conns == 1..MaxConn

-----------------------------------------------------------------------------
(* JavaScript values *)

Undefined == "undefined"

\* {}
EmptyObject == <<>>

Get(obj, field) == IF field \in DOMAIN obj THEN obj[field] ELSE Undefined

\* { ...base, <fields of over> }: later keys win
Spread(base, over) == over @@ base

ObjectId(hex) == <<hex>>

NoId == <<>>

\* ObjectId.prototype.toString / String.prototype.toString
IdToString(id) == IF id = NoId THEN Undefined ELSE id[1]

\* Date.prototype.toJSON, abstractly: the clock value as text
DateToJSON(t) == ToString(t)

SocketId(c) == "sock" \o ToString(c)

-----------------------------------------------------------------------------
(* The identity store (User collection) and the tokens clients present *)

NoUser == [_id |-> NoId, name |-> Undefined, initials |-> Undefined, university |-> Undefined]

Store ==
    [a |-> [_id |-> ObjectId("a"), name |-> "Asha", initials |-> "AS", university |-> "X"],
     b |-> [_id |-> ObjectId("b"), name |-> "Bala", initials |-> "BA", university |-> "X"],
     c |-> [_id |-> ObjectId("c"), name |-> "Chen", initials |-> "CH", university |-> "Y"]]

StoredIds == DOMAIN Store

\* an id that verifies in a token but has no document in the store
GhostId == "g"

TargetIds == StoredIds \cup {GhostId}

\* User.findById(id): the document, or null (NoUser)
FindById(id) == IF id \in StoredIds THEN Store[id] ELSE NoUser

NoToken == [kind |-> "absent", userId |-> Undefined]

BadToken == [kind |-> "invalid", userId |-> Undefined]

SignedToken(id) == [kind |-> "signed", userId |-> id]

Tokens == {NoToken, BadToken} \cup {SignedToken(id) : id \in TargetIds}

\* !token
TokenMissing(token) == token.kind = "absent"

\* jwt.verify(token, secret) throws unless the token is signed and unexpired
JwtVerifyThrows(token) == token.kind # "signed"

\* jwt.verify(token, secret) returns the decoded claims
JwtVerify(token) == [userId |-> token.userId]

AuthenticationError == "Authentication error"

UserNotFound == "User not found"

NoError == ""

-----------------------------------------------------------------------------
(* Socket.IO primitives *)

IdleSocket == [st |-> "idle", token |-> NoToken, userId |-> NoId, user |-> NoUser,
               err |-> NoError, nexts |-> 0]

Connected(c) == sockets[c].st = "connected"

\* the members of a room
Members(room) == {d \in Conns : room \in rooms[d]}

\* socket.to(room): the members of room except the sending socket
SocketTo(c, room) == Members(room) \ {c}

\* io.to(room): the members of room
IoTo(room) == Members(room)

\* io.emit: every socket of the namespace
IoAll == {d \in Conns : Connected(d)}

RECURSIVE SetToSeq(_)
SetToSeq(S) ==
    IF S = {} THEN <<>>
    ELSE LET m == CHOOSE x \in S : \A y \in S : x <= y
         IN <<m>> \o SetToSeq(S \ {m})

\* <recipients>.emit(event, payload): one delivery per recipient
Emit(recipients, event, payload) ==
    LET order == SetToSeq(recipients)
    IN [i \in 1..Len(order) |-> [to |-> order[i], event |-> event, payload |-> payload]]

UniversityRoom(university) == "university:" \o university

QuestionRoom(questionId) == "question:" \o questionId

AmaRoom(sessionId) == "ama:" \o sessionId

GlobalRoom == "global"

-----------------------------------------------------------------------------
(* The Map connectedUsers, as the sequence of its entries *)

MapKeys(m) == {m[i].key : i \in 1..Len(m)}

MapHas(m, k) == k \in MapKeys(m)

MapIndex(m, k) == CHOOSE i \in 1..Len(m) : m[i].key = k

\* Map.prototype.get: the value, or undefined (callers test MapHas first)
MapGet(m, k) == m[MapIndex(m, k)].value

\* Map.prototype.set: overwrite in place when the key exists, else append
MapSet(m, k, v) ==
    IF MapHas(m, k)
    THEN [m EXCEPT ![MapIndex(m, k)] = [key |-> k, value |-> v]]
    ELSE Append(m, [key |-> k, value |-> v])

\* Map.prototype.delete
MapDelete(m, k) == SelectSeq(m, LAMBDA e : e.key # k)

\* getConnectedUsers
getConnectedUsers == [i \in 1..Len(connectedUsers) |-> connectedUsers[i].value]

\* getConnectedUsersCount
getConnectedUsersCount == Len(connectedUsers)

-----------------------------------------------------------------------------
Op(kind, c, args) == [kind |-> kind, conn |-> c, args |-> args]

NoOp == Op("none", 0, <<>>)

\* the event loop is between two callbacks and the process is alive
Ready == ~uncaught /\ lastOp.kind = "none"

\* no response sent yet
NoResponse ==
    [route |-> "none", code |-> 0, user |-> Undefined, arg |-> Undefined,
     body |-> Undefined]

\* a request slot of POST /:id/like with no request in it
NoLikeRequest == [st |-> "idle", user |-> Undefined, likes |-> <<>>, v |-> 0]

\* the socket layer after socketHandler(io) has run: no socket, an empty registry
InitRealtime ==
    /\ sockets = [c \in Conns |-> IdleSocket]
    /\ rooms = [c \in Conns |-> {}]
    /\ connectedUsers = <<>>
    /\ outbox = <<>>
    /\ lastOp = NoOp
    /\ now = 0
    /\ roomOps = 0
    /\ uncaught = FALSE
    /\ inbox = [c \in Conns |-> <<>>]
    /\ sent = [c \in Conns |-> 0]
    /\ seen = [d \in Conns |-> [c \in Conns |-> <<>>]]
    /\ touch = [c \in Conns |-> [connection |-> "none", disconnect |-> "none"]]
    /\ errors = {}

\* the stores of the HTTP routes at start: no AMA session, a question nobody
\* likes, no registered user, no request served
InitStores ==
    /\ amaSessions = <<>>
    /\ question = [likes |-> <<>>, v |-> 0]
    /\ likeReqs = [r \in LikeSlots |-> NoLikeRequest]
    /\ users = <<>>
    /\ res = NoResponse
    /\ reqs = 0

\* the socket layer never reads req.user
Init == InitRealtime /\ InitStores /\ idForm = "ObjectId"

\* the callback has returned: the packets it emitted are written to their sockets
\* and the event loop takes the next callback
Flush ==
    /\ ~uncaught
    /\ lastOp.kind # "none"
    /\ outbox' = <<>>
    /\ lastOp' = NoOp
    /\ UNCHANGED <<sockets, rooms, connectedUsers, now, roomOps, uncaught>>
    /\ UNCHANGED <<Inbound, Touches, Http>>

-----------------------------------------------------------------------------
(* io.use: the authentication middleware (lines 9-29) *)

\* line 13: next(new Error(...)) for an absent token
MissingTokenError == AuthenticationError

\* line 27: next(new Error(...)) from the catch block
CaughtError == AuthenticationError

\* the not-found rejection reusing the generic message
NotFoundErrorGeneric == AuthenticationError

\* line 20: next(new Error(...)) when findById resolves to null
NotFoundError == UserNotFound

\* a middleware that logs the error and lets the socket through
NextIgnoringError(s, msg) == [s EXCEPT !.st = "passed", !.nexts = @ + 1]

\* next(err)
NextWithError(s, msg) == [s EXCEPT !.st = "rejected", !.err = msg, !.nexts = @ + 1]

\* next()
NextWithoutError(s) == [s EXCEPT !.st = "passed", !.nexts = @ + 1]

\* a middleware that does not await the lookup before calling next()
AuthBeginNoAwait(s, token) ==
    LET t == [s EXCEPT !.token = token]
    IN IF TokenMissing(token) THEN NextWithError(t, MissingTokenError)
       ELSE IF JwtVerifyThrows(token) THEN NextWithError(t, CaughtError)
       ELSE [t EXCEPT !.st = "passed", !.nexts = @ + 1]

\* lines 10-17, up to the await of User.findById
AuthBegin(s, token) ==
    LET t == [s EXCEPT !.token = token]
    IN IF TokenMissing(token) THEN NextWithError(t, MissingTokenError)
       ELSE IF JwtVerifyThrows(token) THEN NextWithError(t, CaughtError)
       ELSE [t EXCEPT !.st = "lookup"]

\* a middleware without the `if (!user)` test
AuthResumeNoUserTest(s, outcome) ==
    IF outcome = "rejects" THEN NextWithError(s, CaughtError)
    ELSE LET user == FindById(JwtVerify(s.token).userId)
         IN NextWithoutError([s EXCEPT !.userId = user._id, !.user = user])

\* a middleware whose catch block lets the socket through
AuthResumeAdmitsOnFailure(s, outcome) ==
    IF outcome = "rejects" THEN NextWithoutError(s)
    ELSE LET user == FindById(JwtVerify(s.token).userId)
         IN IF user = NoUser THEN NextWithError(s, NotFoundError)
            ELSE NextWithoutError([s EXCEPT !.userId = user._id, !.user = user])

\* a middleware whose not-found branch lacks its `return`: after next(err) the
\* read of user._id throws and the catch block calls next a second time
AuthResumeNoReturn(s, outcome) ==
    IF outcome = "rejects" THEN NextWithError(s, CaughtError)
    ELSE LET user == FindById(JwtVerify(s.token).userId)
         IN IF user = NoUser
            THEN NextWithError(NextWithError(s, NotFoundError), CaughtError)
            ELSE NextWithoutError([s EXCEPT !.userId = user._id, !.user = user])

\* lines 17-28, from the settlement of User.findById ("resolves" or "rejects")
AuthResume(s, outcome) ==
    IF outcome = "rejects" THEN NextWithError(s, CaughtError)
    ELSE LET user == FindById(JwtVerify(s.token).userId)
         IN IF user = NoUser THEN NextWithError(s, NotFoundError)
            ELSE NextWithoutError([s EXCEPT !.userId = user._id, !.user = user])

LookupOutcomes == {"resolves", "rejects"}

\* a client opens a connection presenting token; the middleware runs to its await
Handshake(c, token) ==
    /\ Ready
    /\ sockets[c].st = "idle"
    /\ \A d \in Conns : d < c => sockets[d].st # "idle"
    /\ sockets' = [sockets EXCEPT ![c] = AuthBegin(@, token)]
    /\ outbox' = <<>>
    /\ lastOp' = Op("handshake", c, <<token>>)
    /\ UNCHANGED <<rooms, connectedUsers, now, roomOps, uncaught>>

\* User.findById settles and the middleware runs to its end
LookupReturns(c, outcome) ==
    /\ Ready
    /\ sockets[c].st = "lookup"
    /\ sockets' = [sockets EXCEPT ![c] = AuthResume(@, outcome)]
    /\ outbox' = <<>>
    /\ lastOp' = Op("lookup", c, <<outcome>>)
    /\ UNCHANGED <<rooms, connectedUsers, now, roomOps, uncaught>>

-----------------------------------------------------------------------------
(* io.on('connection') (lines 31-50) *)

\* lines 47-49 and 188-190: User.findByIdAndUpdate(...) is called and the handler
\* goes on without awaiting the promise
TouchStarted(c, at) == [touch EXCEPT ![c][at] = "pending"]

\* lines 35-39: the value stored for the user
ConnectionRecord(c) ==
    [socketId |-> SocketId(c), user |-> sockets[c].user, connectedAt |-> now,
     status |-> Undefined]

\* a registration that keeps an entry the user already has
RegisterIfAbsent(c) ==
    IF MapHas(connectedUsers, IdToString(sockets[c].userId)) THEN connectedUsers
    ELSE MapSet(connectedUsers, IdToString(sockets[c].userId), ConnectionRecord(c))

\* lines 35-39: connectedUsers.set(socket.userId.toString(), {...})
Register(c) == MapSet(connectedUsers, IdToString(sockets[c].userId), ConnectionRecord(c))

\* an admission that joins the university room only
AutoRoomsNoGlobal(c) == {SocketId(c), UniversityRoom(sockets[c].user.university)}

\* lines 42 and 45, and the transport's join of the room named by the socket id
AutoRooms(c) == {SocketId(c), UniversityRoom(sockets[c].user.university), GlobalRoom}

Connection(c) ==
    /\ Ready
    /\ sockets[c].st = "passed"
    /\ connectedUsers' = Register(c)
    /\ rooms' = [rooms EXCEPT ![c] = @ \cup AutoRooms(c)]
    /\ sockets' = [sockets EXCEPT ![c].st = "connected"]
    /\ outbox' = <<>>
    /\ lastOp' = Op("connection", c, <<>>)
    /\ now' = now + 1
    /\ touch' = TouchStarted(c, "connection")
    /\ UNCHANGED <<roomOps, uncaught, errors>>

-----------------------------------------------------------------------------
(* Handler plumbing *)

\* a handler that returns normally having made these deliveries
Served(kind, c, args, deliveries) ==
    /\ outbox' = deliveries
    /\ lastOp' = Op(kind, c, args)
    /\ UNCHANGED <<sockets, rooms, connectedUsers, now, roomOps, uncaught>>

\* a handler that throws: nothing catches it, the process ends and with it
\* every socket, the registry and the rooms
Thrown(kind, c, args) ==
    /\ uncaught' = TRUE
    /\ sockets' = [d \in Conns |-> IdleSocket]
    /\ rooms' = [d \in Conns |-> {}]
    /\ connectedUsers' = <<>>
    /\ outbox' = <<>>
    /\ roomOps' = 0
    /\ lastOp' = Op(kind, c, args)
    /\ UNCHANGED now

\* data.<field> on an undefined data throws
NoData(args) == Len(args) = 0

-----------------------------------------------------------------------------
(* Targeted events (lines 126-151) *)

\* lines 132-136
ConnectionRequestPayload(c, data) ==
    [from |-> sockets[c].user.name,
     fromId |-> IdToString(sockets[c].userId),
     message |-> Get(data, "message")]

\* a payload that names the sender but loses the body
PrivateMessagePayloadNoBody(c, data) ==
    [from |-> sockets[c].user.name,
     fromId |-> IdToString(sockets[c].userId),
     message |-> Undefined,
     timestamp |-> DateToJSON(now)]

\* lines 144-149
PrivateMessagePayload(c, data) ==
    [from |-> sockets[c].user.name,
     fromId |-> IdToString(sockets[c].userId),
     message |-> Get(data, "message"),
     timestamp |-> DateToJSON(now)]

\* a targeted send that falls back to everyone when the target is unknown
TargetSocketsOrAll(data) ==
    LET k == Get(data, "targetUserId")
    IN IF MapHas(connectedUsers, k) THEN IoTo(MapGet(connectedUsers, k).socketId) ELSE IoAll

\* lines 130-132 and 142-144: connectedUsers.get(data.targetUserId), then
\* io.to(targetUser.socketId)
TargetSockets(data) ==
    LET k == Get(data, "targetUserId")
    IN IF MapHas(connectedUsers, k) THEN IoTo(MapGet(connectedUsers, k).socketId) ELSE {}

NewConnection(c, args) ==
    /\ Ready
    /\ Connected(c)
    /\ IF NoData(args) THEN Thrown("new_connection", c, args)
       ELSE Served("new_connection", c, args,
                   Emit(TargetSockets(args[1]), "connection_request",
                        ConnectionRequestPayload(c, args[1])))

PrivateMessage(c, args) ==
    /\ Ready
    /\ Connected(c)
    /\ IF NoData(args) THEN Thrown("private_message", c, args)
       ELSE Served("private_message", c, args,
                   Emit(TargetSockets(args[1]), "private_message",
                        PrivateMessagePayload(c, args[1])))

TargetedArgs ==
    {<<>>, <<EmptyObject>>}
    \cup {<<[targetUserId |-> t, message |-> "hello", from |-> "Mallory",
               fromId |-> "z", extra |-> "x"]>> : t \in TargetIds}

-----------------------------------------------------------------------------
(* Room-scoped events (lines 53-123) *)

\* the room of the sender's university (lines 57, 174, 194)
OwnUniversityRoom(c) == UniversityRoom(sockets[c].user.university)

\* lines 57-63
NewQuestionPayload(c, data) ==
    Spread(data, [author |-> sockets[c].user.name,
                  authorInitial |-> sockets[c].user.initials,
                  university |-> sockets[c].user.university,
                  timestamp |-> DateToJSON(now)])

\* lines 66-70
QuestionTrendingPayload(c, data) ==
    [questionId |-> Get(data, "id"),
     title |-> Get(data, "title"),
     university |-> sockets[c].user.university]

\* io.to(...) in place of socket.to(...): the sender is not excluded
NewQuestionRecipientsWithSender(c) == IoTo(OwnUniversityRoom(c))

\* line 57: socket.to(`university:${socket.user.university}`)
NewQuestionRecipients(c) == SocketTo(c, OwnUniversityRoom(c))

\* the trending notice sent to the sender's university room in place of 'global'
QuestionTrendingRecipientsUniversity(c) == SocketTo(c, OwnUniversityRoom(c))

\* line 66: socket.to('global')
QuestionTrendingRecipients(c) == SocketTo(c, GlobalRoom)

NewQuestion(c, args) ==
    /\ Ready
    /\ Connected(c)
    /\ IF NoData(args) THEN Thrown("new_question", c, args)
       ELSE Served("new_question", c, args,
                   Emit(NewQuestionRecipients(c), "new_question",
                        NewQuestionPayload(c, args[1]))
                   \o Emit(QuestionTrendingRecipients(c), "question_trending",
                           QuestionTrendingPayload(c, args[1])))

\* the spread written last: fields of the inbound payload replace the stamps
NewAnswerPayloadDataLast(c, data) ==
    Spread([author |-> sockets[c].user.name,
            authorInitial |-> sockets[c].user.initials,
            timestamp |-> DateToJSON(now)], data)

\* lines 78-83
NewAnswerPayload(c, data) ==
    Spread(data, [author |-> sockets[c].user.name,
                  authorInitial |-> sockets[c].user.initials,
                  timestamp |-> DateToJSON(now)])

\* io.to(...) in place of socket.to(...): the sender is not excluded
QuestionRecipientsWithSender(c, data) == IoTo(QuestionRoom(Get(data, "questionId")))

\* lines 78, 101, 108, 118: socket.to(`question:${data.questionId}`)
QuestionRecipients(c, data) == SocketTo(c, QuestionRoom(Get(data, "questionId")))

NewAnswer(c, args) ==
    /\ Ready
    /\ Connected(c)
    /\ IF NoData(args) THEN Thrown("new_answer", c, args)
       ELSE Served("new_answer", c, args,
                   Emit(QuestionRecipients(c, args[1]), "new_answer",
                        NewAnswerPayload(c, args[1])))

\* lines 91-96
LiveChatPayload(c, data) ==
    [message |-> Get(data, "message"),
     author |-> sockets[c].user.name,
     authorInitial |-> sockets[c].user.initials,
     timestamp |-> DateToJSON(now)]

\* the chat message sent to every live socket but the sender, whatever its rooms
LiveChatRecipientsEveryone(c, data) == IoAll \ {c}

\* line 91: socket.to(`ama:${data.sessionId}`)
LiveChatRecipients(c, data) == SocketTo(c, AmaRoom(Get(data, "sessionId")))

LiveChat(c, args) ==
    /\ Ready
    /\ Connected(c)
    /\ IF NoData(args) THEN Thrown("live_chat", c, args)
       ELSE Served("live_chat", c, args,
                   Emit(LiveChatRecipients(c, args[1]), "live_chat",
                        LiveChatPayload(c, args[1])))

\* lines 101-104
UserTypingPayload(c) ==
    [userId |-> IdToString(sockets[c].userId), userName |-> sockets[c].user.name]

\* lines 108-110
UserStoppedTypingPayload(c) == [userId |-> IdToString(sockets[c].userId)]

TypingStart(c, args) ==
    /\ Ready
    /\ Connected(c)
    /\ IF NoData(args) THEN Thrown("typing_start", c, args)
       ELSE Served("typing_start", c, args,
                   Emit(QuestionRecipients(c, args[1]), "user_typing",
                        UserTypingPayload(c)))

TypingStop(c, args) ==
    /\ Ready
    /\ Connected(c)
    /\ IF NoData(args) THEN Thrown("typing_stop", c, args)
       ELSE Served("typing_stop", c, args,
                   Emit(QuestionRecipients(c, args[1]), "user_stopped_typing",
                        UserStoppedTypingPayload(c)))

\* lines 118-122
QuestionLikeUpdatedPayload(c, data) ==
    [questionId |-> Get(data, "questionId"),
     likedBy |-> sockets[c].user.name,
     likeCount |-> Get(data, "likeCount")]

QuestionLiked(c, args) ==
    /\ Ready
    /\ Connected(c)
    /\ IF NoData(args) THEN Thrown("question_liked", c, args)
       ELSE Served("question_liked", c, args,
                   Emit(QuestionRecipients(c, args[1]), "question_like_updated",
                        QuestionLikeUpdatedPayload(c, args[1])))

\* Each event is sent with no payload, with an empty object, and with a payload
\* that has the fields the handler reads, a field it does not know (extra) and
\* fields named like the ones the server stamps.
NewQuestionArgs ==
    {<<>>, <<EmptyObject>>,
     <<[id |-> "q1", title |-> "T", author |-> "Mallory", authorInitial |-> "MM",
        university |-> "Z", timestamp |-> "never", extra |-> "x"]>>}

NewAnswerArgs ==
    {<<>>, <<EmptyObject>>,
     <<[questionId |-> "q1", content |-> "A1", author |-> "Mallory",
        authorInitial |-> "MM", timestamp |-> "never", extra |-> "x"]>>}

LiveChatArgs ==
    {<<>>, <<EmptyObject>>,
     <<[sessionId |-> "s1", message |-> "hi", author |-> "Mallory", extra |-> "x"]>>}

TypingArgs == {<<>>, <<[questionId |-> "q1"]>>}

QuestionLikedArgs ==
    {<<>>, <<[questionId |-> "q1", likeCount |-> "5", extra |-> "x"]>>}

-----------------------------------------------------------------------------
(* join_room / leave_room (lines 154-162) and status_update (lines 165-179) *)

RoomArgs ==
    {GlobalRoom, UniversityRoom("X"), UniversityRoom("Y"), QuestionRoom("q1"), AmaRoom("s1")}

\* a join that takes the socket out of a room it is already in
JoinRoomToggle(c, roomName) ==
    /\ Ready
    /\ Connected(c)
    /\ roomOps < MaxRoomOps
    /\ roomOps' = roomOps + 1
    /\ rooms' = [rooms EXCEPT ![c] = IF roomName \in @ THEN @ \ {roomName}
                                     ELSE @ \cup {roomName}]
    /\ outbox' = <<>>
    /\ lastOp' = Op("join_room", c, <<roomName>>)
    /\ UNCHANGED <<sockets, connectedUsers, now, uncaught>>

\* a join that makes roomName the socket's only room
JoinRoomExclusive(c, roomName) ==
    /\ Ready
    /\ Connected(c)
    /\ roomOps < MaxRoomOps
    /\ roomOps' = roomOps + 1
    /\ rooms' = [rooms EXCEPT ![c] = {roomName}]
    /\ outbox' = <<>>
    /\ lastOp' = Op("join_room", c, <<roomName>>)
    /\ UNCHANGED <<sockets, connectedUsers, now, uncaught>>

\* a join that accepts only the university room of the socket's own user and the
\* question and ama rooms
JoinRoomOwnUniversityOnly(c, roomName) ==
    /\ Ready
    /\ Connected(c)
    /\ roomOps < MaxRoomOps
    /\ roomOps' = roomOps + 1
    /\ rooms' = [rooms EXCEPT ![c] =
                    IF roomName \in {UniversityRoom(u) : u \in {"X", "Y"}}
                                    \ {OwnUniversityRoom(c)}
                    THEN @ ELSE @ \cup {roomName}]
    /\ outbox' = <<>>
    /\ lastOp' = Op("join_room", c, <<roomName>>)
    /\ UNCHANGED <<sockets, connectedUsers, now, uncaught>>

\* line 155: socket.join(roomName)
JoinRoom(c, roomName) ==
    /\ Ready
    /\ Connected(c)
    /\ roomOps < MaxRoomOps
    /\ roomOps' = roomOps + 1
    /\ rooms' = [rooms EXCEPT ![c] = @ \cup {roomName}]
    /\ outbox' = <<>>
    /\ lastOp' = Op("join_room", c, <<roomName>>)
    /\ UNCHANGED <<sockets, connectedUsers, now, uncaught>>

\* line 160: socket.leave(roomName)
LeaveRoom(c, roomName) ==
    /\ Ready
    /\ Connected(c)
    /\ roomOps < MaxRoomOps
    /\ roomOps' = roomOps + 1
    /\ rooms' = [rooms EXCEPT ![c] = @ \ {roomName}]
    /\ outbox' = <<>>
    /\ lastOp' = Op("leave_room", c, <<roomName>>)
    /\ UNCHANGED <<sockets, connectedUsers, now, uncaught>>

StatusArgs == {"busy", "away"}

\* a status write that creates the entry when the user has none
StatusWriteUpsert(c, status) ==
    LET k == IdToString(sockets[c].userId)
    IN IF MapHas(connectedUsers, k)
       THEN MapSet(connectedUsers, k, [MapGet(connectedUsers, k) EXCEPT !.status = status])
       ELSE MapSet(connectedUsers, k, [ConnectionRecord(c) EXCEPT !.status = status])

\* the entry written anew for the sending socket, with the status
StatusWriteFreshRecord(c, status) ==
    LET k == IdToString(sockets[c].userId)
    IN IF MapHas(connectedUsers, k)
       THEN MapSet(connectedUsers, k, [ConnectionRecord(c) EXCEPT !.status = status])
       ELSE connectedUsers

\* lines 167-171
StatusWrite(c, status) ==
    LET k == IdToString(sockets[c].userId)
    IN IF MapHas(connectedUsers, k)
       THEN MapSet(connectedUsers, k, [MapGet(connectedUsers, k) EXCEPT !.status = status])
       ELSE connectedUsers

\* lines 174-178
UserStatusChangedPayload(c, status) ==
    [userId |-> IdToString(sockets[c].userId),
     userName |-> sockets[c].user.name,
     status |-> status]

StatusUpdate(c, status) ==
    /\ Ready
    /\ Connected(c)
    /\ connectedUsers' = StatusWrite(c, status)
    /\ outbox' = Emit(SocketTo(c, OwnUniversityRoom(c)), "user_status_changed",
                      UserStatusChangedPayload(c, status))
    /\ lastOp' = Op("status_update", c, <<status>>)
    /\ UNCHANGED <<sockets, rooms, now, roomOps, uncaught>>

-----------------------------------------------------------------------------
(* disconnect (lines 182-198) *)

\* lines 194-197
UserOfflinePayload(c) ==
    [userId |-> IdToString(sockets[c].userId), userName |-> sockets[c].user.name]

\* user_offline sent to room global in place of the university room
UserOfflineRecipientsGlobal(c) == SocketTo(c, GlobalRoom)

\* line 194: socket.to(`university:${socket.user.university}`)
UserOfflineRecipients(c) == SocketTo(c, OwnUniversityRoom(c))

\* deletes the entry only when it records the closing socket
UnregisterOwnSocket(c) ==
    LET k == IdToString(sockets[c].userId)
    IN IF MapHas(connectedUsers, k) /\ MapGet(connectedUsers, k).socketId = SocketId(c)
       THEN MapDelete(connectedUsers, k)
       ELSE connectedUsers

\* leaves the registry as it is
UnregisterNothing(c) == connectedUsers

\* line 186
Unregister(c) == MapDelete(connectedUsers, IdToString(sockets[c].userId))

\* a disconnect after which the closed socket is still in its rooms
DisconnectKeepsRooms(c) ==
    /\ Ready
    /\ Connected(c)
    /\ connectedUsers' = Unregister(c)
    /\ sockets' = [sockets EXCEPT ![c].st = "closed"]
    /\ outbox' = Emit(UserOfflineRecipients(c), "user_offline", UserOfflinePayload(c))
    /\ lastOp' = Op("disconnect", c, <<>>)
    /\ touch' = TouchStarted(c, "disconnect")
    /\ UNCHANGED <<rooms, now, roomOps, uncaught, errors>>

\* the transport has already taken the closing socket out of all its rooms
\* when the handler runs
Disconnect(c) ==
    /\ Ready
    /\ Connected(c)
    /\ connectedUsers' = Unregister(c)
    /\ rooms' = [rooms EXCEPT ![c] = {}]
    /\ sockets' = [sockets EXCEPT ![c].st = "closed"]
    /\ outbox' = Emit(UserOfflineRecipients(c), "user_offline", UserOfflinePayload(c))
    /\ lastOp' = Op("disconnect", c, <<>>)
    /\ touch' = TouchStarted(c, "disconnect")
    /\ UNCHANGED <<now, roomOps, uncaught, errors>>

TouchOutcomes == {"resolves", "rejects"}

\* a rejection nothing catches: the process ends on the unhandled rejection
TouchRejectedUnhandled(c, at) == [errors |-> errors, uncaught |-> TRUE]

\* lines 50 and 191: .catch(console.error)
TouchRejected(c, at) ==
    [errors |-> errors \cup {[conn |-> c, at |-> at]}, uncaught |-> uncaught]

\* the promise of a last-seen update settles
TouchSettles(c, at, outcome) ==
    /\ Ready
    /\ touch[c][at] = "pending"
    /\ touch' = [touch EXCEPT ![c][at] = "settled"]
    /\ errors' = IF outcome = "rejects" THEN TouchRejected(c, at).errors ELSE errors
    /\ uncaught' = IF outcome = "rejects" THEN TouchRejected(c, at).uncaught ELSE uncaught
    /\ outbox' = <<>>
    /\ lastOp' = Op("touch", c, <<at, outcome>>)
    /\ UNCHANGED <<sockets, rooms, connectedUsers, now, roomOps, Inbound, Http>>

-----------------------------------------------------------------------------
(* Exported accessors (lines 207-220) *)

AccessorEvent == "notification"

AccessorData == [text |-> "n"]

\* a targeted send that reaches every live socket of the user
emitToUserEverySocket(userId) ==
    /\ Ready
    /\ outbox' = Emit({d \in Conns : Connected(d) /\ IdToString(sockets[d].userId) = userId},
                      AccessorEvent, AccessorData)
    /\ lastOp' = Op("emitToUser", 0, <<userId>>)
    /\ UNCHANGED <<sockets, rooms, connectedUsers, now, roomOps, uncaught>>

\* a targeted send that falls back to every socket when the user has no entry
emitToUserOrAll(userId) ==
    /\ Ready
    /\ outbox' = IF MapHas(connectedUsers, userId)
                 THEN Emit(IoTo(MapGet(connectedUsers, userId).socketId),
                           AccessorEvent, AccessorData)
                 ELSE Emit(IoAll, AccessorEvent, AccessorData)
    /\ lastOp' = Op("emitToUser", 0, <<userId>>)
    /\ UNCHANGED <<sockets, rooms, connectedUsers, now, roomOps, uncaught>>

\* lines 207-212
emitToUser(userId) ==
    /\ Ready
    /\ outbox' = IF MapHas(connectedUsers, userId)
                 THEN Emit(IoTo(MapGet(connectedUsers, userId).socketId),
                           AccessorEvent, AccessorData)
                 ELSE <<>>
    /\ lastOp' = Op("emitToUser", 0, <<userId>>)
    /\ UNCHANGED <<sockets, rooms, connectedUsers, now, roomOps, uncaught>>

\* lines 214-216
emitToUniversity(university) ==
    /\ Ready
    /\ outbox' = Emit(IoTo(UniversityRoom(university)), AccessorEvent, AccessorData)
    /\ lastOp' = Op("emitToUniversity", 0, <<university>>)
    /\ UNCHANGED <<sockets, rooms, connectedUsers, now, roomOps, uncaught>>

\* a broadcast addressed to room global in place of the whole namespace
emitToAllGlobalRoom ==
    /\ Ready
    /\ outbox' = Emit(IoTo(GlobalRoom), AccessorEvent, AccessorData)
    /\ lastOp' = Op("emitToAll", 0, <<>>)
    /\ UNCHANGED <<sockets, rooms, connectedUsers, now, roomOps, uncaught>>

\* lines 218-220
emitToAll ==
    /\ Ready
    /\ outbox' = Emit(IoAll, AccessorEvent, AccessorData)
    /\ lastOp' = Op("emitToAll", 0, <<>>)
    /\ UNCHANGED <<sockets, rooms, connectedUsers, now, roomOps, uncaught>>

Universities == {"X", "Y"}

-----------------------------------------------------------------------------
Next ==
    \/ \E c \in Conns, token \in Tokens : Handshake(c, token) /\ UNCHANGED <<Inbound, Touches, Http>>
    \/ \E c \in Conns, outcome \in LookupOutcomes : LookupReturns(c, outcome) /\ UNCHANGED <<Inbound, Touches, Http>>
    \/ \E c \in Conns : Connection(c) /\ UNCHANGED <<Inbound, Http>>
    \/ \E c \in Conns, args \in NewQuestionArgs : NewQuestion(c, args) /\ UNCHANGED <<Inbound, Touches, Http>>
    \/ \E c \in Conns, args \in NewAnswerArgs : NewAnswer(c, args) /\ UNCHANGED <<Inbound, Touches, Http>>
    \/ \E c \in Conns, args \in LiveChatArgs : LiveChat(c, args) /\ UNCHANGED <<Inbound, Touches, Http>>
    \/ \E c \in Conns, args \in TypingArgs : TypingStart(c, args) /\ UNCHANGED <<Inbound, Touches, Http>>
    \/ \E c \in Conns, args \in TypingArgs : TypingStop(c, args) /\ UNCHANGED <<Inbound, Touches, Http>>
    \/ \E c \in Conns, args \in QuestionLikedArgs : QuestionLiked(c, args) /\ UNCHANGED <<Inbound, Touches, Http>>
    \/ \E c \in Conns, args \in TargetedArgs : NewConnection(c, args) /\ UNCHANGED <<Inbound, Touches, Http>>
    \/ \E c \in Conns, args \in TargetedArgs : PrivateMessage(c, args) /\ UNCHANGED <<Inbound, Touches, Http>>
    \/ \E c \in Conns, roomName \in RoomArgs : JoinRoom(c, roomName) /\ UNCHANGED <<Inbound, Touches, Http>>
    \/ \E c \in Conns, roomName \in RoomArgs : LeaveRoom(c, roomName) /\ UNCHANGED <<Inbound, Touches, Http>>
    \/ \E c \in Conns, status \in StatusArgs : StatusUpdate(c, status) /\ UNCHANGED <<Inbound, Touches, Http>>
    \/ \E c \in Conns : Disconnect(c) /\ UNCHANGED <<Inbound, Http>>
    \/ \E userId \in TargetIds : emitToUser(userId) /\ UNCHANGED <<Inbound, Touches, Http>>
    \/ \E university \in Universities : emitToUniversity(university) /\ UNCHANGED <<Inbound, Touches, Http>>
    \/ emitToAll /\ UNCHANGED <<Inbound, Touches, Http>>
    \/ Flush

Spec == Init /\ [][Next]_vars

-----------------------------------------------------------------------------
(* The inbound event stream of a socket.  A client's emits travel on the
   socket's single ordered stream and the server hands them, one packet at a
   time and oldest first, to the handler registered for the event's name with
   socket.on (lines 53-179).  Every one of these handlers is synchronous: it
   contains no await and no callback, so it runs to its end, registry and room
   changes and emits included, before the next packet of any socket is taken.
   Spec lets any handler run at any time; SpecOrder runs the same handlers from
   each socket's queue of numbered events. *)

\* the events a client queues
OrderEvents ==
    {[kind |-> "status_update", args |-> <<"busy">>],
     [kind |-> "status_update", args |-> <<"away">>],
     [kind |-> "new_question", args |-> <<[id |-> "q1", title |-> "T"]>>],
     [kind |-> "typing_start", args |-> <<[questionId |-> "q1"]>>],
     [kind |-> "join_room", args |-> <<QuestionRoom("q1")>>]}

\* join_room requests that are queued and not yet served
QueuedRoomOps ==
    Cardinality({p \in Conns \X (1..MaxSend) :
                    /\ p[2] <= Len(inbox[p[1]])
                    /\ inbox[p[1]][p[2]].kind \in {"join_room", "leave_room"}})

\* the client of socket c emits an event: it is numbered and queued
Send(c, e) ==
    /\ Ready
    /\ Connected(c)
    /\ sent[c] < MaxSend
    /\ e.kind \in {"join_room", "leave_room"} => roomOps + QueuedRoomOps < MaxRoomOps
    /\ sent' = [sent EXCEPT ![c] = @ + 1]
    /\ inbox' = [inbox EXCEPT ![c] = Append(@, [n |-> sent[c] + 1, kind |-> e.kind,
                                                 args |-> e.args])]
    /\ UNCHANGED <<sockets, rooms, connectedUsers, outbox, lastOp, now, roomOps,
                   uncaught, seen, Touches, Http>>

\* the most recently queued packet is taken first
NextPacketNewest(c) == Len(inbox[c])

\* the position in inbox[c] of the packet the server takes next: the oldest
NextPacket(c) == 1

\* the receivers of the deliveries note the number of the event that caused them
Note(c, n, deliveries) ==
    [d \in Conns |->
        [seen[d] EXCEPT ![c] =
            IF \E i \in 1..Len(deliveries) : deliveries[i].to = d
            THEN Append(@, n) ELSE @]]

\* the server takes socket c's next packet and runs the handler of its event
Dispatch(c) ==
    /\ inbox[c] # <<>>
    /\ LET i == NextPacket(c)
           e == inbox[c][i]
       IN /\ \/ e.kind = "status_update" /\ StatusUpdate(c, e.args[1])
             \/ e.kind = "new_question" /\ NewQuestion(c, e.args)
             \/ e.kind = "typing_start" /\ TypingStart(c, e.args)
             \/ e.kind = "join_room" /\ JoinRoom(c, e.args[1])
          /\ inbox' = [inbox EXCEPT ![c] =
                          [j \in 1..(Len(@) - 1) |-> IF j < i THEN @[j] ELSE @[j + 1]]]
          /\ seen' = Note(c, e.n, outbox')
          /\ UNCHANGED <<sent, Touches, Http>>

NextOrder ==
    \/ \E c \in Conns, token \in Tokens : Handshake(c, token) /\ UNCHANGED <<Inbound, Touches, Http>>
    \/ \E c \in Conns, outcome \in LookupOutcomes : LookupReturns(c, outcome) /\ UNCHANGED <<Inbound, Touches, Http>>
    \/ \E c \in Conns : Connection(c) /\ UNCHANGED <<Inbound, Http>>
    \/ \E c \in Conns, e \in OrderEvents : Send(c, e)
    \/ \E c \in Conns : Dispatch(c)
    \/ Flush

SpecOrder == Init /\ [][NextOrder]_vars

-----------------------------------------------------------------------------
(* The last-seen updates.  The 'connection' and the 'disconnect' handler each
   call User.findByIdAndUpdate without awaiting it and attach
   .catch(console.error) (lines 47-50, 188-191): the promise settles in a later
   turn of the event loop.  In Spec and SpecOrder the promises stay pending;
   SpecTouch lets each of them resolve or reject at any later time. *)

NextTouch ==
    \/ \E c \in Conns, token \in Tokens : Handshake(c, token) /\ UNCHANGED <<Inbound, Touches, Http>>
    \/ \E c \in Conns, outcome \in LookupOutcomes : LookupReturns(c, outcome) /\ UNCHANGED <<Inbound, Touches, Http>>
    \/ \E c \in Conns : Connection(c) /\ UNCHANGED <<Inbound, Http>>
    \/ \E c \in Conns : Disconnect(c) /\ UNCHANGED <<Inbound, Http>>
    \/ \E c \in Conns, at \in {"connection", "disconnect"}, outcome \in TouchOutcomes :
           TouchSettles(c, at, outcome)
    \/ Flush

SpecTouch == Init /\ [][NextTouch]_vars

-----------------------------------------------------------------------------
(* Vocabulary of the properties *)

RoomScopedKinds ==
    {"new_question", "new_answer", "live_chat", "typing_start", "typing_stop",
     "question_liked", "status_update", "disconnect"}

TargetedKinds == {"new_connection", "private_message"}

MembershipKinds == {"join_room", "leave_room"}

HandlerKinds == RoomScopedKinds \cup TargetedKinds \cup MembershipKinds

\* the last step was a handler of socket c that returned normally
Ran(kind) == lastOp.kind = kind /\ ~uncaught

\* the payload the last step's handler received
LastData == lastOp.args[1]

HasData == Len(lastOp.args) = 1

\* the registry entries that record socket c
EntriesOf(c) == {i \in 1..Len(connectedUsers) : connectedUsers[i].value.socketId = SocketId(c)}

\* the registry entries under key k
EntriesFor(k) == {i \in 1..Len(connectedUsers) : connectedUsers[i].key = k}

\* the sockets that received event in the last step
Receivers(event) == {outbox[i].to : i \in {j \in 1..Len(outbox) : outbox[j].event = event}}

\* the number of deliveries of event to socket d in the last step
Copies(event, d) ==
    Cardinality({i \in 1..Len(outbox) : outbox[i].event = event /\ outbox[i].to = d})

Authenticated(s) ==
    /\ s.token.kind = "signed"
    /\ s.token.userId \in StoredIds
    /\ s.user = Store[s.token.userId]
    /\ s.userId = s.user._id
    /\ s.err = NoError
    /\ s.nexts = 1

-----------------------------------------------------------------------------
(* C1 - C10 *)

\* C1: after the 'connection' handler ran for a socket of user u, connectedUsers
\* has exactly one entry under u and its socketId is that socket's id (the most
\* recently admitted one); no key ever occurs twice.
C1_OneEntryNewestSocket ==
    /\ \A i, j \in 1..Len(connectedUsers) :
           connectedUsers[i].key = connectedUsers[j].key => i = j
    /\ Ran("connection") =>
           LET k == IdToString(sockets[lastOp.conn].userId)
           IN /\ Cardinality(EntriesFor(k)) = 1
              /\ MapGet(connectedUsers, k).socketId = SocketId(lastOp.conn)
              /\ MapGet(connectedUsers, k).connectedAt = now - 1

\* C1 witness: a user's second socket was admitted while the first is still live
C1_Witness ==
    /\ Ran("connection")
    /\ \E d \in Conns \ {lastOp.conn} :
           Connected(d) /\ sockets[d].userId = sockets[lastOp.conn].userId

\* C2: a handshake whose token is missing or fails verification, and any
\* handshake the middleware rejects, leaves connectedUsers and every room
\* membership as they were, and its socket is in no room and in no entry.
C2_RejectedChangesNothing ==
    /\ [](\A c \in Conns :
             (sockets[c].st = "rejected"
              \/ (sockets[c].st # "idle" /\ sockets[c].token.kind # "signed"))
             => rooms[c] = {} /\ EntriesOf(c) = {} /\ sockets[c].st = "rejected")
    /\ [][(\E c \in Conns : sockets[c].st # "rejected" /\ sockets'[c].st = "rejected")
          => UNCHANGED <<connectedUsers, rooms>>]_vars

\* C2 witness: a handshake was just rejected while the registry has an entry
C2_Witness ==
    /\ lastOp.kind \in {"handshake", "lookup"}
    /\ sockets[lastOp.conn].st = "rejected"
    /\ connectedUsers # <<>>
    /\ rooms[lastOp.conn] = {}

\* C3: a handler runs only on a socket that passed the middleware: whenever a
\* handler has run, its socket had been admitted by next() without error, exactly
\* once, for a signed token of a stored user.
C3_HandlersOnlyAfterAuth ==
    (lastOp.kind \in HandlerKinds /\ ~uncaught) =>
        /\ sockets[lastOp.conn].st \in {"connected", "closed"}
        /\ sockets[lastOp.conn].st = "closed" => lastOp.kind = "disconnect"
        /\ Authenticated(sockets[lastOp.conn])

\* C3 witness: a handler ran on one socket while another socket stands rejected
C3_Witness ==
    /\ Ran("new_question")
    /\ \E d \in Conns : sockets[d].st = "rejected"

\* C4 as claimed: the rejections for an absent token, for a token that fails
\* verification and for an unknown user carry three pairwise different reasons.
C4_ThreeReasons ==
    \A c, d \in Conns :
        (/\ sockets[c].st = "rejected"
         /\ sockets[d].st = "rejected"
         /\ sockets[c].token.kind # sockets[d].token.kind)
        => sockets[c].err # sockets[d].err

\* C4 amended: an absent token and a token that fails verification are rejected
\* with the same reason 'Authentication error'; a verified token whose user the
\* store does not hold is rejected with 'User not found'; only these two reasons
\* occur.
C4_TwoReasons ==
    \A c \in Conns :
        sockets[c].st = "rejected" =>
            /\ sockets[c].nexts = 1
            /\ sockets[c].err \in {AuthenticationError, UserNotFound}
            /\ sockets[c].token.kind \in {"absent", "invalid"}
                   => sockets[c].err = AuthenticationError
            /\ (lastOp.kind = "lookup" /\ lastOp.conn = c /\ lastOp.args = <<"resolves">>)
                   => (sockets[c].err = UserNotFound
                       /\ sockets[c].token.userId \notin StoredIds)
            /\ sockets[c].err = UserNotFound
                   => (sockets[c].token.kind = "signed"
                       /\ sockets[c].token.userId \notin StoredIds)

\* C4 witness: an absent token and an unknown user were both rejected
C4_Witness ==
    \E c, d \in Conns :
        /\ sockets[c].st = "rejected" /\ sockets[c].token.kind = "absent"
        /\ sockets[d].st = "rejected" /\ sockets[d].err = UserNotFound

\* C5: a socket is admitted only after User.findById for its token returned a
\* user; while the lookup is pending the socket has no registry entry and is in
\* no room, whatever the other sockets do meanwhile.
C5_NoAdmissionBeforeLookup ==
    \A c \in Conns :
        /\ sockets[c].st = "lookup"
               => (rooms[c] = {} /\ EntriesOf(c) = {} /\ sockets[c].nexts = 0
                   /\ sockets[c].user = NoUser)
        /\ sockets[c].st \in {"passed", "connected", "closed"}
               => (sockets[c].user # NoUser
                   /\ sockets[c].user = FindById(JwtVerify(sockets[c].token).userId))

\* C5 witness: another socket's event was served while a lookup is pending
C5_Witness ==
    /\ Ran("status_update")
    /\ \E c \in Conns \ {lastOp.conn} : sockets[c].st = "lookup"

\* C6: a private_message or new_connection whose targetUserId has no registry
\* entry delivers nothing, throws nothing and changes neither connectedUsers nor
\* any room membership nor any socket.
C6_AbsentTargetDropped ==
    [][(/\ lastOp'.kind \in TargetedKinds
        /\ Len(lastOp'.args) = 1
        /\ ~MapHas(connectedUsers, Get(lastOp'.args[1], "targetUserId")))
       => (outbox' = <<>> /\ ~uncaught'
           /\ UNCHANGED <<connectedUsers, rooms, sockets>>)]_vars

\* C6 witness: a private_message to a stored user who is not connected was
\* dropped while two sockets are live
C6_Witness ==
    /\ Ran("private_message")
    /\ HasData
    /\ Get(LastData, "targetUserId") \in StoredIds
    /\ ~MapHas(connectedUsers, Get(LastData, "targetUserId"))
    /\ outbox = <<>>
    /\ \A d \in Conns : Connected(d)

C8_ConnectionRequestTimestamp ==
    (Ran("new_connection") /\ HasData
     /\ MapHas(connectedUsers, Get(LastData, "targetUserId")))
    => /\ Len(outbox) = 1
       /\ outbox[1].event = "connection_request"
       /\ SocketId(outbox[1].to)
              = MapGet(connectedUsers, Get(LastData, "targetUserId")).socketId
       /\ outbox[1].payload.from = sockets[lastOp.conn].user.name
       /\ outbox[1].payload.fromId = IdToString(sockets[lastOp.conn].userId)
       /\ "timestamp" \in DOMAIN outbox[1].payload

\* C9: a new_question from socket C is delivered as new_question, once each, to
\* every other member of room university:<C's university> and to nobody else,
\* never to C.
C9_NewQuestionSelfExclusion ==
    Ran("new_question") =>
        LET c == lastOp.conn
            room == UniversityRoom(sockets[c].user.university)
        IN /\ Receivers("new_question") = {d \in Conns : d # c /\ room \in rooms[d]}
           /\ \A d \in Receivers("new_question") : Copies("new_question", d) = 1
           /\ c \notin Receivers("new_question")

\* C9 witness: the sender is in its university room and another member got the event
C9_Witness ==
    /\ Ran("new_question")
    /\ UniversityRoom(sockets[lastOp.conn].user.university) \in rooms[lastOp.conn]
    /\ Receivers("new_question") # {}

-----------------------------------------------------------------------------
(* C11 - C20 *)

\* C11 as claimed: every disconnect of an admitted socket of user u leaves
\* connectedUsers without an entry for u and with exactly one entry fewer than
\* immediately before it.
C11_SizeAlwaysOneLess ==
    [][lastOp'.kind = "disconnect"
       => /\ ~MapHas(connectedUsers', IdToString(sockets[lastOp'.conn].userId))
          /\ getConnectedUsersCount' = getConnectedUsersCount - 1]_vars

\* C11 amended: every disconnect of an admitted socket of user u leaves
\* connectedUsers without an entry for u; the size is one less than immediately
\* before when u had an entry then, and unchanged when u had none (another socket
\* of u disconnected since u's last admission); no other user's entry changes.
C11_EntryGoneSizeFollows ==
    [][lastOp'.kind = "disconnect"
       => LET k == IdToString(sockets[lastOp'.conn].userId)
          IN /\ ~MapHas(connectedUsers', k)
             /\ getConnectedUsersCount'
                    = getConnectedUsersCount - (IF MapHas(connectedUsers, k) THEN 1 ELSE 0)
             /\ \A i \in 1..Len(connectedUsers) :
                    connectedUsers[i].key # k
                    => \E j \in 1..Len(connectedUsers') :
                           connectedUsers'[j] = connectedUsers[i]]_vars

\* C11 witness: the second of a user's two sockets disconnected after the first
\* one had, so that there was no entry left to remove
C11_Witness ==
    /\ Ran("disconnect")
    /\ \E d \in Conns \ {lastOp.conn} :
           /\ sockets[d].st = "closed"
           /\ sockets[d].userId = sockets[lastOp.conn].userId
    /\ connectedUsers = <<>>

\* C12: a new_question with payload data from a socket of user A reaches every
\* other member of room university:<A's university> once as new_question with
\* data's title, author = A's name and university = A's university, and every
\* other member of room global once as question_trending with data's title and
\* A's university; a socket in both rooms gets both events, and nothing else is
\* delivered.
C12_NewQuestionFanOut ==
    (Ran("new_question") /\ HasData) =>
        LET c == lastOp.conn
            A == sockets[c].user
            inUniv == {d \in Conns \ {c} : UniversityRoom(A.university) \in rooms[d]}
            inGlobal == {d \in Conns \ {c} : GlobalRoom \in rooms[d]}
        IN /\ Receivers("new_question") = inUniv
           /\ Receivers("question_trending") = inGlobal
           /\ \A d \in inUniv : Copies("new_question", d) = 1
           /\ \A d \in inGlobal : Copies("question_trending", d) = 1
           /\ \A i \in 1..Len(outbox) :
                  /\ outbox[i].event \in {"new_question", "question_trending"}
                  /\ Get(outbox[i].payload, "title") = Get(LastData, "title")
                  /\ outbox[i].payload.university = A.university
                  /\ outbox[i].event = "new_question"
                         => outbox[i].payload.author = A.name

\* C12 witness: a question titled T reached a socket that is in global but not
\* in the sender's university room (trending only) while the sender's payload
\* named another author and university
C12_Witness ==
    /\ Ran("new_question") /\ HasData
    /\ Get(LastData, "title") = "T"
    /\ Get(LastData, "author") # sockets[lastOp.conn].user.name
    /\ \E d \in Receivers("question_trending") : d \notin Receivers("new_question")
    /\ \E i \in 1..Len(outbox) : outbox[i].payload.title = "T"

\* C13 as claimed: after a socket of user A served status_update with value s,
\* connectedUsers has an entry for A whose status is s, and every other member
\* of room university:<A's university> got user_status_changed once, naming A's
\* userId and userName and the status s.
C13_StatusRecordedAndBroadcast ==
    Ran("status_update") =>
        LET c == lastOp.conn
            k == IdToString(sockets[c].userId)
        IN /\ MapHas(connectedUsers, k)
           /\ MapGet(connectedUsers, k).status = LastData
           /\ Receivers("user_status_changed")
                  = {d \in Conns \ {c} : OwnUniversityRoom(c) \in rooms[d]}
           /\ \A i \in 1..Len(outbox) :
                  /\ outbox[i].event = "user_status_changed"
                  /\ Copies("user_status_changed", outbox[i].to) = 1
                  /\ outbox[i].payload
                         = [userId |-> k, userName |-> sockets[c].user.name,
                            status |-> LastData]

\* C14: after the disconnect handler of an admitted socket ran, connectedUsers
\* has no entry for its user, and user_offline with that user's userId and
\* userName went once to every other member of room university:<the user's
\* university> and to no one else; the closing socket is in no room and got
\* nothing.
C14_DisconnectAnnounced ==
    Ran("disconnect") =>
        LET c == lastOp.conn
            k == IdToString(sockets[c].userId)
        IN /\ EntriesFor(k) = {}
           /\ sockets[c].st = "closed"
           /\ rooms[c] = {}
           /\ Receivers("user_offline")
                  = {d \in Conns \ {c} : UniversityRoom(sockets[c].user.university) \in rooms[d]}
           /\ \A i \in 1..Len(outbox) :
                  /\ outbox[i].event = "user_offline"
                  /\ outbox[i].to # c
                  /\ Copies("user_offline", outbox[i].to) = 1
                  /\ outbox[i].payload
                         = [userId |-> k, userName |-> sockets[c].user.name]

\* C14 witness: a socket disconnected and a socket of another user of the same
\* university, still in the university room, got user_offline
C14_Witness ==
    /\ Ran("disconnect")
    /\ \E d \in Receivers("user_offline") :
           /\ Connected(d)
           /\ sockets[d].userId # sockets[lastOp.conn].userId
           /\ sockets[d].user.university = sockets[lastOp.conn].user.university

\* C15: in the state right after the 'connection' handler of a socket, before any
\* of its inbound events is served, connectedUsers maps its user to the record
\* {socketId, user, connectedAt} of this socket with no status, the socket is in
\* room university:<its university> and in room global, and the admission has
\* delivered no event to any socket.
C15_AdmissionState ==
    Ran("connection") =>
        LET c == lastOp.conn
            k == IdToString(sockets[c].userId)
        IN /\ MapHas(connectedUsers, k)
           /\ MapGet(connectedUsers, k)
                  = [socketId |-> SocketId(c), user |-> Store[sockets[c].token.userId],
                     connectedAt |-> now - 1, status |-> Undefined]
           /\ UniversityRoom(Store[sockets[c].token.userId].university) \in rooms[c]
           /\ GlobalRoom \in rooms[c]
           /\ sockets[c].st = "connected"
           /\ outbox = <<>>

\* C15 witness: a socket was admitted while a socket of another user of the same
\* university is live, which would be the one to notify
C15_Witness ==
    /\ Ran("connection")
    /\ \E d \in Conns \ {lastOp.conn} :
           /\ Connected(d)
           /\ sockets[d].userId # sockets[lastOp.conn].userId
           /\ OwnUniversityRoom(lastOp.conn) \in rooms[d]

\* C16 as claimed: in every reachable state every live admitted socket is in room
\* global and in room university:<its user's university>, whatever join_room and
\* leave_room events were served.
C16_AutoRoomsAlways ==
    \A c \in Conns :
        Connected(c) => (GlobalRoom \in rooms[c] /\ OwnUniversityRoom(c) \in rooms[c])

\* C16 amended: a socket is in room global and in room university:<its user's
\* university> from its admission on, and while it is live it stops being a
\* member of either only by its own leave_room naming that room; no join_room,
\* no leave_room of another name and no event of another socket removes it.
C16_AutoRoomsUntilLeft ==
    [][\A c \in Conns :
          /\ (~Connected(c) /\ Connected(c)')
                 => (GlobalRoom \in rooms'[c] /\ OwnUniversityRoom(c)' \in rooms'[c])
          /\ (Connected(c) /\ Connected(c)')
                 => \A r \in {GlobalRoom, OwnUniversityRoom(c)} :
                        (r \in rooms[c] /\ r \notin rooms'[c])
                        => (/\ lastOp'.kind = "leave_room"
                            /\ lastOp'.conn = c
                            /\ lastOp'.args = <<r>>)]_vars

\* C16 witness: a live socket has left room global by leave_room('global') while
\* another live socket is still in it
C16_Witness ==
    /\ Ran("leave_room")
    /\ lastOp.args = <<GlobalRoom>>
    /\ Connected(lastOp.conn)
    /\ GlobalRoom \notin rooms[lastOp.conn]
    /\ \E d \in Conns \ {lastOp.conn} : Connected(d) /\ GlobalRoom \in rooms[d]

\* C17: join_room of a room the socket is already in and leave_room of a room it
\* is not in change no membership; every join_room adds exactly the named room
\* and every leave_room removes exactly it, for the emitting socket only; neither
\* delivers an event, throws, or changes connectedUsers or a socket; and no step
\* ever delivers the same event twice to one socket, however often it joined.
C17_MembershipIdempotent ==
    /\ [](\A i, j \in 1..Len(outbox) :
              (outbox[i].to = outbox[j].to /\ outbox[i].event = outbox[j].event) => i = j)
    /\ [][lastOp'.kind \in MembershipKinds
          => LET c == lastOp'.conn
                 r == lastOp'.args[1]
             IN /\ outbox' = <<>>
                /\ ~uncaught'
                /\ UNCHANGED <<connectedUsers, sockets>>
                /\ \A d \in Conns \ {c} : rooms'[d] = rooms[d]
                /\ lastOp'.kind = "join_room" => rooms'[c] = rooms[c] \cup {r}
                /\ lastOp'.kind = "leave_room" => rooms'[c] = rooms[c] \ {r}
                /\ (lastOp'.kind = "join_room" /\ r \in rooms[c]) => rooms' = rooms
                /\ (lastOp'.kind = "leave_room" /\ r \notin rooms[c]) => rooms' = rooms]_vars

\* C17 witness: a socket's first membership request was join_room('global'), the
\* room it was put in at admission, and its rooms are still exactly those
C17_Witness ==
    /\ Ran("join_room")
    /\ lastOp.args = <<GlobalRoom>>
    /\ roomOps = 1
    /\ rooms[lastOp.conn] = AutoRooms(lastOp.conn)
    /\ connectedUsers # <<>>

\* the room the last step's room-scoped handler addressed
LastRoom ==
    CASE lastOp.kind \in {"new_question", "status_update", "disconnect"}
             -> OwnUniversityRoom(lastOp.conn)
      [] lastOp.kind \in {"new_answer", "typing_start", "typing_stop", "question_liked"}
             -> QuestionRoom(Get(LastData, "questionId"))
      [] lastOp.kind = "live_chat" -> AmaRoom(Get(LastData, "sessionId"))

\* the event the last step's room-scoped handler sent to LastRoom
LastEvent ==
    CASE lastOp.kind = "new_question" -> "new_question"
      [] lastOp.kind = "status_update" -> "user_status_changed"
      [] lastOp.kind = "disconnect" -> "user_offline"
      [] lastOp.kind = "new_answer" -> "new_answer"
      [] lastOp.kind = "typing_start" -> "user_typing"
      [] lastOp.kind = "typing_stop" -> "user_stopped_typing"
      [] lastOp.kind = "question_liked" -> "question_like_updated"
      [] lastOp.kind = "live_chat" -> "live_chat"

\* C18: join_room puts the emitting socket in the named room whatever the name
\* and whatever the user's university; a socket stays in a room until its own
\* leave_room of that name or its disconnect; and a socket that is in a room by
\* join_room only (not one of the rooms of its admission) gets, once, every event
\* another socket's handler sends to that room, as do sockets of any university
\* for emitToUniversity.
C18_JoinedMemberReceives ==
    /\ []((lastOp.kind \in RoomScopedKinds /\ ~uncaught)
           => \A d \in Conns \ {lastOp.conn} :
                  (LastRoom \in rooms[d] \ AutoRooms(d)) => Copies(LastEvent, d) = 1)
    /\ [](lastOp.kind = "emitToUniversity"
           => \A d \in Conns :
                  (UniversityRoom(LastData) \in rooms[d]) => Copies(AccessorEvent, d) = 1)
    /\ [][/\ lastOp'.kind = "join_room"
               => (lastOp'.args[1] \in rooms'[lastOp'.conn] /\ ~uncaught')
          /\ \A c \in Conns : \A r \in rooms[c] \ rooms'[c] :
                  \/ uncaught'
                  \/ lastOp'.conn = c /\ lastOp'.kind = "disconnect"
                  \/ lastOp'.conn = c /\ lastOp'.kind = "leave_room"
                                      /\ lastOp'.args = <<r>>]_vars

\* C18 witness: a socket of a university X user that joined university:Y got
\* the new_question of a university Y user
C18_Witness ==
    /\ Ran("new_question")
    /\ sockets[lastOp.conn].user.university = "Y"
    /\ \E d \in Receivers("new_question") :
           /\ sockets[d].user.university = "X"
           /\ UniversityRoom("Y") \in rooms[d]
           /\ UniversityRoom("Y") \notin AutoRooms(d)

\* the user a targeted send of the last step was addressed to
LastTarget ==
    IF lastOp.kind = "emitToUser" THEN LastData ELSE Get(LastData, "targetUserId")

-----------------------------------------------------------------------------
(* C21 - C30 *)

\* C21: the 'connection' and the 'disconnect' handler return while their
\* last-seen update is still pending, having written or removed the registry
\* entry, joined the rooms and sent user_offline; when the update settles later,
\* resolved or rejected, no socket, room membership or registry entry changes,
\* nothing is delivered and nothing escapes: a rejection only adds a
\* console.error record.
C21_TouchFailureOnlyLogged ==
    /\ [](~uncaught)
    /\ [](Ran("connection")
           => LET c == lastOp.conn
              IN /\ touch[c].connection = "pending"
                 /\ EntriesOf(c) # {}
                 /\ {OwnUniversityRoom(c), GlobalRoom} \subseteq rooms[c])
    /\ [](Ran("disconnect")
           => LET c == lastOp.conn
              IN /\ touch[c].disconnect = "pending"
                 /\ EntriesFor(IdToString(sockets[c].userId)) = {}
                 /\ Receivers("user_offline")
                        = {d \in Conns \ {c} : OwnUniversityRoom(c) \in rooms[d]})
    /\ [][lastOp'.kind = "touch"
          => /\ UNCHANGED <<sockets, rooms, connectedUsers, uncaught>>
             /\ outbox' = <<>>
             /\ errors' = IF lastOp'.args[2] = "rejects"
                           THEN errors \cup {[conn |-> lastOp'.conn, at |-> lastOp'.args[1]]}
                           ELSE errors]_vars

\* C21 witness: the last-seen update of an admission was rejected and logged
\* while the socket is live, registered and in its rooms
C21_Witness ==
    /\ lastOp.kind = "touch"
    /\ lastOp.args = <<"connection", "rejects">>
    /\ Connected(lastOp.conn)
    /\ EntriesOf(lastOp.conn) # {}
    /\ GlobalRoom \in rooms[lastOp.conn]
    /\ [conn |-> lastOp.conn, at |-> "connection"] \in errors

\* C22 as claimed: when User.findById fails during a handshake the failure is
\* logged and the connection is not aborted.
C22_LookupFailureTolerated ==
    (lastOp.kind = "lookup" /\ lastOp.args = <<"rejects">>)
    => /\ sockets[lastOp.conn].st # "rejected"
       /\ \E e \in errors : e.conn = lastOp.conn

\* C22 amended: when User.findById fails during a handshake the middleware's
\* catch block refuses the handshake with 'Authentication error', calling next
\* once: the socket is not admitted then or later, it gets no registry entry
\* and no room, no other socket, entry or membership changes, and nothing is
\* logged.
C22_LookupFailureRefuses ==
    /\ [][(lastOp'.kind = "lookup" /\ lastOp'.args = <<"rejects">>)
          => LET c == lastOp'.conn
             IN /\ sockets'[c].st = "rejected"
                /\ sockets'[c].err = AuthenticationError
                /\ sockets'[c].nexts = 1
                /\ sockets'[c].user = NoUser
                /\ rooms'[c] = {}
                /\ \A d \in Conns \ {c} : sockets'[d] = sockets[d]
                /\ UNCHANGED <<connectedUsers, rooms, errors, uncaught>>]_vars
    /\ [][\A c \in Conns : sockets[c].st = "rejected" => sockets'[c] = sockets[c]]_vars

\* C22 witness: a lookup failed and its handshake was refused while another
\* socket is live and registered
C22_Witness ==
    /\ lastOp.kind = "lookup"
    /\ lastOp.args = <<"rejects">>
    /\ sockets[lastOp.conn].st = "rejected"
    /\ \E d \in Conns \ {lastOp.conn} : Connected(d) /\ EntriesOf(d) # {}

\* the inbound events whose handler reads fields of its payload
PayloadKinds ==
    {"new_question", "new_answer", "live_chat", "typing_start", "typing_stop",
     "question_liked", "new_connection", "private_message"}

\* C23 as claimed: a room-scoped or targeted event whose payload lacks fields,
\* or that has no payload at all, never fails: nothing escapes its handler, and
\* what it delivers carries the missing fields as undefined.
C23_MalformedNeverFails ==
    lastOp.kind \in PayloadKinds
    => /\ ~uncaught
       /\ \A i \in 1..Len(outbox) :
              outbox[i].event \in {"new_question", "question_trending"}
              => Get(outbox[i].payload, "title")
                     = (IF HasData THEN Get(LastData, "title") ELSE Undefined)

\* the event a handler sends for the inbound event it serves
PrimaryEvent ==
    CASE lastOp.kind = "new_connection" -> "connection_request"
      [] lastOp.kind = "question_liked" -> "question_like_updated"
      [] OTHER -> lastOp.kind

\* C24 as claimed: a field of the inbound payload that the server does not know
\* appears unchanged in the outbound event, for new_question, new_answer,
\* live_chat, question_liked, private_message and new_connection.
C24_UnknownFieldsPassThrough ==
    (/\ lastOp.kind \in {"new_question", "new_answer", "live_chat", "question_liked",
                         "private_message", "new_connection"}
     /\ ~uncaught
     /\ HasData
     /\ "extra" \in DOMAIN LastData)
    => \A i \in 1..Len(outbox) :
           outbox[i].event = PrimaryEvent
           => Get(outbox[i].payload, "extra") = LastData.extra

C26_AccessorBroadcasts ==
    /\ lastOp.kind = "emitToUniversity"
           => /\ Receivers(AccessorEvent)
                     = {d \in Conns : UniversityRoom(LastData) \in rooms[d]}
              /\ \A i \in 1..Len(outbox) :
                     /\ outbox[i].event = AccessorEvent
                     /\ outbox[i].payload = AccessorData
                     /\ Copies(AccessorEvent, outbox[i].to) = 1
    /\ lastOp.kind = "emitToAll"
           => /\ Receivers(AccessorEvent) = {d \in Conns : sockets[d].st = "connected"}
              /\ \A i \in 1..Len(outbox) :
                     /\ outbox[i].event = AccessorEvent
                     /\ outbox[i].payload = AccessorData
                     /\ Copies(AccessorEvent, outbox[i].to) = 1

\* C26 witness: emitToAll reached a live socket that has left room global
C26_Witness ==
    /\ lastOp.kind = "emitToAll"
    /\ \E d \in Receivers(AccessorEvent) : Connected(d) /\ GlobalRoom \notin rooms[d]
    /\ \E d \in Receivers(AccessorEvent) : GlobalRoom \in rooms[d]

\* C27 as claimed: connectedUsers changes only in the 'connection' and the
\* 'disconnect' handler.
C27_OnlyLifecycleMutates ==
    [][connectedUsers' # connectedUsers
       => (uncaught' \/ lastOp'.kind \in {"connection", "disconnect"})]_vars

\* C27 amended: an entry is inserted or replaced only by the 'connection'
\* handler of a socket of its user and removed only by the 'disconnect' handler
\* of a socket of its user; the one other change is status_update, which sets
\* the status field of the existing entry of the sender's user and nothing
\* else; no other handler and no accessor changes connectedUsers.
C27_LifecycleAndStatusMutate ==
    [][~uncaught' =>
       \A k \in StoredIds :
          LET own == IdToString(sockets'[lastOp'.conn].userId) = k
          IN /\ (~MapHas(connectedUsers, k) /\ MapHas(connectedUsers', k))
                    => (lastOp'.kind = "connection" /\ own)
             /\ (MapHas(connectedUsers, k) /\ ~MapHas(connectedUsers', k))
                    => (lastOp'.kind = "disconnect" /\ own)
             /\ (/\ MapHas(connectedUsers, k)
                 /\ MapHas(connectedUsers', k)
                 /\ MapGet(connectedUsers', k) # MapGet(connectedUsers, k))
                    => \/ lastOp'.kind = "connection" /\ own
                       \/ /\ lastOp'.kind = "status_update"
                          /\ own
                          /\ MapGet(connectedUsers', k)
                                 = [MapGet(connectedUsers, k) EXCEPT !.status = lastOp'.args[1]]]_vars

\* C27 witness: status_update has set the status in the entry of the sender's
\* user while another user's entry is as it was written at admission
C27_Witness ==
    /\ Ran("status_update")
    /\ MapHas(connectedUsers, IdToString(sockets[lastOp.conn].userId))
    /\ MapGet(connectedUsers, IdToString(sockets[lastOp.conn].userId)).status = LastData
    /\ \E i \in 1..Len(connectedUsers) : connectedUsers[i].value.status = Undefined

\* C28: in every reachable state each entry of connectedUsers records the
\* socket id of a socket that is admitted, not yet disconnected and of the
\* user the entry is keyed by; so whatever a targeted send (private_message,
\* new_connection, emitToUser) delivers goes to a live socket.
C28_EntriesAreLive ==
    /\ \A i \in 1..Len(connectedUsers) :
           \E c \in Conns :
              /\ SocketId(c) = connectedUsers[i].value.socketId
              /\ Connected(c)
              /\ IdToString(sockets[c].userId) = connectedUsers[i].key
    /\ (~uncaught /\ lastOp.kind \in TargetedKinds \cup {"emitToUser"})
           => \A i \in 1..Len(outbox) :
                 Connected(outbox[i].to)

\* C28 witness: a socket has just closed, its user's entry is gone, and the
\* registry still holds the entry of another user's live socket
C28_Witness ==
    /\ Ran("disconnect")
    /\ ~MapHas(connectedUsers, IdToString(sockets[lastOp.conn].userId))
    /\ \E d \in Conns :
           /\ Connected(d)
           /\ EntriesOf(d) # {}

\* C29 as claimed: whenever a user has a live admitted socket, connectedUsers
\* has an entry for that user, and a private_message, new_connection or
\* emitToUser addressed to a user with a live socket is delivered to one of
\* that user's live sockets.
C29_LiveUserHasEntry ==
    /\ \A c \in Conns :
           Connected(c) => MapHas(connectedUsers, IdToString(sockets[c].userId))
    /\ (~uncaught /\ lastOp.kind \in TargetedKinds \cup {"emitToUser"})
           => \A c \in Conns :
                 (Connected(c) /\ IdToString(sockets[c].userId) = LastTarget)
                    => \E i \in 1..Len(outbox) :
                          /\ Connected(outbox[i].to)
                          /\ IdToString(sockets[outbox[i].to].userId) = LastTarget

\* C30 as claimed: user_offline naming u is broadcast only when u has no live
\* admitted socket left, and no socket of u receives it.
C30_OfflineOnlyWhenGone ==
    Ran("disconnect")
       => /\ \A d \in Conns :
                Connected(d) => sockets[d].userId # sockets[lastOp.conn].userId
          /\ \A d \in Receivers("user_offline") :
                sockets[d].userId # sockets[lastOp.conn].userId

-----------------------------------------------------------------------------
(* C31 - C39 *)

\* the socket whose handler ran last
Sender == sockets[lastOp.conn]

\* C31: the identity stamped on an outbound event is the sender's handshake
\* identity whatever the inbound payload holds: each new_question delivered
\* carries the sender's name, initials and university and the server's time,
\* each new_answer the sender's name and initials and the server's time, also
\* when the payload has fields of those names; each private_message and
\* connection_request carries the sender's name and user id as from/fromId.
C31_IdentityNotSpoofable ==
    \A i \in 1..Len(outbox) :
       LET p == outbox[i].payload
       IN /\ (Ran("new_question") /\ outbox[i].event = "new_question")
                 => /\ p.author = Sender.user.name
                    /\ p.authorInitial = Sender.user.initials
                    /\ p.university = Sender.user.university
                    /\ p.timestamp = DateToJSON(now)
          /\ (Ran("new_answer") /\ outbox[i].event = "new_answer")
                 => /\ p.author = Sender.user.name
                    /\ p.authorInitial = Sender.user.initials
                    /\ p.timestamp = DateToJSON(now)
          /\ (/\ ~uncaught
              /\ lastOp.kind \in TargetedKinds
              /\ outbox[i].event \in {"private_message", "connection_request"})
                 => /\ p.from = Sender.user.name
                    /\ p.fromId = IdToString(Sender.userId)

\* C31 witness: a new_answer whose payload names another author and time has
\* been delivered
C31_Witness ==
    /\ Ran("new_answer")
    /\ HasData
    /\ Get(LastData, "author") = "Mallory"
    /\ Get(LastData, "timestamp") = "never"
    /\ Receivers("new_answer") # {}

\* the inbound events whose handler broadcasts to one room
InboundRoomKinds == RoomScopedKinds \ {"disconnect"}

C34_StatusUpdateFrame ==
    [][(lastOp'.kind = "status_update" /\ ~uncaught')
       => LET c == lastOp'.conn
              k == IdToString(sockets[c].userId)
          IN /\ Len(connectedUsers') = Len(connectedUsers)
             /\ \A i \in 1..Len(connectedUsers) :
                    /\ connectedUsers'[i].key = connectedUsers[i].key
                    /\ connectedUsers[i].key # k
                           => connectedUsers'[i].value = connectedUsers[i].value
                    /\ connectedUsers[i].key = k
                           => connectedUsers'[i].value
                                  = [connectedUsers[i].value EXCEPT !.status = lastOp'.args[1]]
             /\ UNCHANGED <<sockets, rooms>>
             /\ {outbox'[i].to : i \in 1..Len(outbox')}
                    = {d \in Conns \ {c} : OwnUniversityRoom(c) \in rooms[d]}
             /\ \A i \in 1..Len(outbox') :
                    /\ outbox'[i].event = "user_status_changed"
                    /\ outbox'[i].payload.status = lastOp'.args[1]]_vars

\* C34 witness: a live socket sent status_update after the disconnect of
\* another socket of its user had removed the user's entry; the registry still
\* has no entry for the user
C34_Witness ==
    /\ Ran("status_update")
    /\ Connected(lastOp.conn)
    /\ ~MapHas(connectedUsers, IdToString(Sender.userId))
    /\ \E d \in Conns \ {lastOp.conn} :
           /\ sockets[d].st = "closed"
           /\ sockets[d].userId = Sender.userId

\* C35: every handshake whose middleware has run to its end has exactly one
\* outcome: next was called once, with an error (the socket is refused) or
\* without one (the socket is admitted), on each path: token absent, token
\* failing verification, lookup failing, user not found, success; while the
\* lookup is pending next has not been called.
C35_NextCalledExactlyOnce ==
    \A c \in Conns :
       LET s == sockets[c]
       IN /\ s.st \in {"idle", "lookup"} => (s.nexts = 0 /\ s.err = NoError)
          /\ s.st = "rejected"
                 => /\ s.nexts = 1
                    /\ s.err \in {AuthenticationError, UserNotFound}
                    /\ s.user = NoUser
          /\ s.st \in {"passed", "connected", "closed"}
                 => /\ s.nexts = 1
                    /\ s.err = NoError
                    /\ s.user # NoUser

\* C35 witness: one handshake ended with 'User not found' after its lookup and
\* another was refused before any lookup, each with one call of next
C35_Witness ==
    \E c, d \in Conns :
       /\ sockets[c].st = "rejected"
       /\ sockets[c].err = UserNotFound
       /\ sockets[c].nexts = 1
       /\ sockets[d].st = "rejected"
       /\ sockets[d].token.kind \in {"absent", "invalid"}
       /\ sockets[d].nexts = 1

-----------------------------------------------------------------------------
(* routes/chat.js: AMA sessions (lines 90-325) *)

\* the users whose requests pass the auth middleware
HttpUsers == {"a", "b"}

\* middleware/auth is not part of these sources.  The routes compare
\* req.user._id with ===: if it is the _id of a document loaded for the
\* request (the question and user routes call req.user._id.toString()), it is
\* an ObjectId object that is a different object in every request; if the
\* middleware stores a string, or the same object for every request of a
\* user, === compares by value.
IdForms == {"ObjectId", "string"}

\* req.user._id in request number n of user u: the id and the object it is
ReqUserId(u, n) == [hex |-> u, ref |-> IF idForm = "ObjectId" THEN n ELSE 0]

\* x === y: the same object, or equal strings
StrictEquals(x, y) == x = y

\* the session ids requests name: the one session created, and one never created
SessionIds == {"s1", "s9"}

AmaStatuses == {"scheduled", "active", "ended"}

\* the message texts sent: one that trim() empties, one that is valid
AmaTexts == {" ", "hi"}

\* String.prototype.trim, on the texts sent
Trim(text) == IF text = " " THEN "" ELSE text

\* the status values sent: the three the validator accepts and one it does not
StatusBodies == AmaStatuses \cup {"paused"}

\* the response sent last, with the request it answers: its route, its user,
\* its path parameter and its body
Response(route, code, u, arg, body) ==
    [route |-> route, code |-> code, user |-> u, arg |-> arg, body |-> body]

\* lines 105-117
NewSession(u, n) ==
    [hostId |-> ReqUserId(u, n), status |-> "scheduled", participants |-> <<>>,
     messages |-> <<>>, endedAt |-> Undefined]

\* an HTTP request of the AMA routes is served: it is counted, and neither
\* the socket layer nor another route's store changes
AmaServed ==
    /\ reqs < MaxReq
    /\ reqs' = reqs + 1
    /\ UNCHANGED <<idForm, question, likeReqs, users, Realtime>>

\* POST /ama/session (lines 90-130), with a valid body
AmaCreate(u) ==
    /\ AmaServed
    /\ amaSessions = <<>>
    /\ amaSessions' = MapSet(amaSessions, "s1", NewSession(u, reqs + 1))
    /\ res' = Response("create", 201, u, "s1", Undefined)

\* lines 211 and 258: session.participants.some(p => p.userId === req.user._id)
IsParticipant(session, me) ==
    \E i \in 1..Len(session.participants) :
        StrictEquals(session.participants[i].userId, me)

\* lines 211-218
Joined(session, me) ==
    IF IsParticipant(session, me) THEN session
    ELSE [session EXCEPT !.participants = Append(@, [userId |-> me])]

\* POST /ama/sessions/:sessionId/join (lines 196-229)
AmaJoin(u, sid) ==
    /\ AmaServed
    /\ IF ~MapHas(amaSessions, sid)
       THEN /\ res' = Response("join", 404, u, sid, Undefined)
            /\ UNCHANGED amaSessions
       ELSE LET session == MapGet(amaSessions, sid)
            IN IF session.status # "active" /\ session.status # "scheduled"
               THEN /\ res' = Response("join", 400, u, sid, Undefined)
                    /\ UNCHANGED amaSessions
               ELSE /\ amaSessions' = MapSet(amaSessions, sid,
                                             Joined(session, ReqUserId(u, reqs + 1)))
                    /\ res' = Response("join", 200, u, sid, Undefined)

\* a message route that does not look at the session's status
MessageRefusalNoStatusTest(session, me) ==
    IF ~IsParticipant(session, me) THEN 403
    ELSE 200

\* lines 253-261: the status the request is refused with, or 200
MessageRefusal(session, me) ==
    IF session.status # "active" THEN 400
    ELSE IF ~IsParticipant(session, me) THEN 403
    ELSE 200

\* lines 263-270
ChatMessage(session, me, text) ==
    [senderId |-> me, message |-> text, isHost |-> StrictEquals(session.hostId, me)]

\* POST /ama/sessions/:sessionId/message (lines 234-283)
AmaMessage(u, sid, text) ==
    /\ AmaServed
    /\ IF Trim(text) = ""
       THEN /\ res' = Response("message", 400, u, sid, text)
            /\ UNCHANGED amaSessions
       ELSE IF ~MapHas(amaSessions, sid)
       THEN /\ res' = Response("message", 404, u, sid, text)
            /\ UNCHANGED amaSessions
       ELSE LET session == MapGet(amaSessions, sid)
                me == ReqUserId(u, reqs + 1)
                code == MessageRefusal(session, me)
            IN /\ res' = Response("message", code, u, sid, text)
               /\ amaSessions' =
                      IF code = 200
                      THEN MapSet(amaSessions, sid,
                                  [session EXCEPT !.messages =
                                       Append(@, ChatMessage(session, me, Trim(text)))])
                      ELSE amaSessions

\* lines 311-314
StatusSet(session, status, n) ==
    [session EXCEPT !.status = status,
                    !.endedAt = IF status = "ended" THEN DateToJSON(n) ELSE @]

\* PUT /ama/sessions/:sessionId/status (lines 288-325)
AmaStatus(u, sid, status) ==
    /\ AmaServed
    /\ IF status \notin AmaStatuses
       THEN /\ res' = Response("status", 400, u, sid, status)
            /\ UNCHANGED amaSessions
       ELSE IF ~MapHas(amaSessions, sid)
       THEN /\ res' = Response("status", 404, u, sid, status)
            /\ UNCHANGED amaSessions
       ELSE LET session == MapGet(amaSessions, sid)
            IN IF ~StrictEquals(session.hostId, ReqUserId(u, reqs + 1))
               THEN /\ res' = Response("status", 403, u, sid, status)
                    /\ UNCHANGED amaSessions
               ELSE /\ amaSessions' = MapSet(amaSessions, sid,
                                             StatusSet(session, status, reqs + 1))
                    /\ res' = Response("status", 200, u, sid, status)

InitAma == InitRealtime /\ InitStores /\ idForm \in IdForms

NextAma ==
    \/ \E u \in HttpUsers : AmaCreate(u)
    \/ \E u \in HttpUsers, sid \in SessionIds : AmaJoin(u, sid)
    \/ \E u \in HttpUsers, sid \in SessionIds, text \in AmaTexts : AmaMessage(u, sid, text)
    \/ \E u \in HttpUsers, sid \in SessionIds, status \in StatusBodies : AmaStatus(u, sid, status)

SpecAma == InitAma /\ [][NextAma]_vars

\* user u has made a join request that session accepted
HasJoined(session, u) ==
    \E i \in 1..Len(session.participants) : session.participants[i].userId.hex = u

C37_HostOnlyJoinOnce ==
    /\ [](\A e \in 1..Len(amaSessions) :
             LET ps == amaSessions[e].value.participants
             IN \A i, j \in 1..Len(ps) : ps[i].userId.hex = ps[j].userId.hex => i = j)
    /\ [][\A e \in 1..Len(amaSessions) :
             LET before == amaSessions[e].value
                 after == amaSessions'[e].value
             IN /\ (before.status # after.status \/ before.endedAt # after.endedAt)
                       => (res'.route = "status" /\ res'.user = before.hostId.hex)
                /\ (/\ res'.route = "status"
                    /\ reqs' # reqs
                    /\ res'.arg = amaSessions[e].key
                    /\ res'.body \in AmaStatuses
                    /\ res'.user # before.hostId.hex)
                       => (res'.code = 403 /\ after = before)
                /\ (/\ res'.route = "join"
                    /\ reqs' # reqs
                    /\ res'.arg = amaSessions[e].key)
                       => IF before.status \in {"scheduled", "active"}
                          THEN res'.code = 200
                          ELSE res'.code = 400 /\ after = before]_vars

-----------------------------------------------------------------------------
(* POST /api/questions/:id/like (lines 1003-1027) and the Question model's  *)
(* addLike / removeLike                                                     *)

\* the question ids requests name: the stored question and one that is not stored
QuestionIds == {"q1", "q9"}

\* Array.prototype.includes on the likes array
Includes(likes, userId) == \E i \in 1..Len(likes) : likes[i] = userId

\* Array.prototype.indexOf, for an element the array holds
IndexOf(likes, userId) ==
    CHOOSE i \in 1..Len(likes) :
        likes[i] = userId /\ \A j \in 1..(i - 1) : likes[j] # userId

\* likes.splice(index, 1)
Splice(likes, index) ==
    [j \in 1..(Len(likes) - 1) |-> IF j < index THEN likes[j] ELSE likes[j + 1]]

\* an HTTP request of the like route is answered: it is counted, and neither
\* the socket layer nor another route's store changes
LikeAnswered ==
    /\ reqs < MaxReq
    /\ reqs' = reqs + 1
    /\ UNCHANGED <<idForm, amaSessions, users, Realtime>>

\* lines 1005-1008: await Question.findById(req.params.id) gives the request
\* its own copy of the stored document, or null
LikeLoad(r, u, qid) ==
    /\ likeReqs[r].st = "idle"
    /\ IF qid # "q1"
       THEN /\ LikeAnswered
            /\ res' = Response("like", 404, u, qid, Undefined)
            /\ UNCHANGED <<question, likeReqs>>
       ELSE /\ reqs + Cardinality({q \in LikeSlots : likeReqs[q].st = "loaded"}) < MaxReq
            /\ likeReqs' = [likeReqs EXCEPT ![r] =
                                [st |-> "loaded", user |-> u, likes |-> question.likes,
                                 v |-> question.v]]
            /\ UNCHANGED <<question, res, reqs, idForm, amaSessions, users, Realtime>>

\* addLike (part_000 lines 142-148) when the copy lacks the user: likes.push and
\* save(); the save sends the push alone ($push) and adds one to __v
AddLike(doc, userId) ==
    [likes |-> Append(question.likes, userId), v |-> question.v + 1]

\* removeLike (part_000 lines 151-158) when the copy holds the user: likes.splice
\* and save(); the save sends the whole array and requires the stored __v to be
\* the copy's, failing with a VersionError otherwise
RemoveLikeFails(doc) == question.v # doc.v

RemoveLike(doc, userId) ==
    [likes |-> Splice(doc.likes, IndexOf(doc.likes, userId)), v |-> question.v + 1]

\* lines 1010-1026, from the test of question.likes on the request's copy
LikeSave(r) ==
    LET doc == likeReqs[r]
        u == doc.user
    IN /\ doc.st = "loaded"
       /\ reqs' = reqs + 1
       /\ likeReqs' = [likeReqs EXCEPT ![r] = NoLikeRequest]
       /\ IF Includes(doc.likes, u)
          THEN IF RemoveLikeFails(doc)
               THEN /\ res' = Response("like", 500, u, "q1", Undefined)
                    /\ UNCHANGED question
               ELSE /\ question' = RemoveLike(doc, u)
                    /\ res' = Response("like", 200, u, "q1", Undefined)
          ELSE /\ question' = AddLike(doc, u)
               /\ res' = Response("like", 200, u, "q1", Undefined)
       /\ UNCHANGED <<idForm, amaSessions, users, Realtime>>

NextLikes ==
    \/ \E r \in LikeSlots, u \in HttpUsers, qid \in QuestionIds : LikeLoad(r, u, qid)
    \/ \E r \in LikeSlots : LikeSave(r)

SpecLikes == Init /\ [][NextLikes]_vars

\* the users in a likes array
Likers(likes) == {likes[i] : i \in 1..Len(likes)}

\* C38 as claimed: under any interleaving of like requests the likes array never
\* holds a user id twice, and a like request that runs from its load to its
\* save with no other request's save in between toggles its user in the array,
\* so that two such requests of one user in a row restore the array's content.
C38_LikesNeverDuplicated ==
    /\ [](\A i, j \in 1..Len(question.likes) :
              question.likes[i] = question.likes[j] => i = j)
    /\ [][\A r \in LikeSlots :
              (/\ likeReqs[r].st = "loaded"
               /\ likeReqs'[r].st = "idle"
               /\ likeReqs[r].v = question.v)
              => LET u == likeReqs[r].user
                 IN Likers(question'.likes)
                        = IF u \in Likers(question.likes)
                          THEN Likers(question.likes) \ {u}
                          ELSE Likers(question.likes) \cup {u}]_vars

-----------------------------------------------------------------------------
(* The in-memory server: POST /api/auth/register and /api/auth/login        *)
(* (lines 334-369)                                                          *)

\* the field values requests carry; Undefined is a field left out
Names == {"Test User", Undefined}

Emails == {"e1", "e2", "e3", ""}

Passwords == {"p1", "p2", Undefined}

UniversityNames == {"Test University"}

RegisterBodies ==
    [name : Names, email : Emails, password : Passwords, university : UniversityNames]

LoginBodies == [email : Emails, password : Passwords]

\* !x for the values sent
Falsy(x) == x \in {Undefined, ""}

\* an HTTP request of the in-memory server is answered: it is counted, and
\* neither the socket layer nor another route's store changes
AuthAnswered ==
    /\ reqs < MaxReq
    /\ reqs' = reqs + 1
    /\ UNCHANGED <<idForm, amaSessions, question, likeReqs, Realtime>>

\* lines 337-343 without the test of the users array
RegisterRefusedFieldsOnly(body) ==
    \/ Falsy(body.name)
    \/ Falsy(body.email)
    \/ Falsy(body.password)
    \/ Falsy(body.university)

\* lines 337-343: the request is answered 400
RegisterRefused(body) ==
    \/ Falsy(body.name)
    \/ Falsy(body.email)
    \/ Falsy(body.password)
    \/ Falsy(body.university)
    \/ \E i \in 1..Len(users) : users[i].email = body.email

\* line 345: id is Date.now(), read here off the request count
NewUser(body) ==
    [id |-> DateToJSON(reqs + 1), name |-> body.name, email |-> body.email,
     password |-> body.password, university |-> body.university]

\* app.post('/api/auth/register') (lines 334-353)
AuthRegister(body) ==
    /\ AuthAnswered
    /\ IF RegisterRefused(body)
       THEN /\ res' = Response("register", 400, body.email, body.password, body)
            /\ UNCHANGED users
       ELSE /\ users' = Append(users, NewUser(body))
            /\ res' = Response("register", 200, body.email, body.password, body)

\* line 358: users.find(u => u.email === email && u.password === password)
LoginFinds(body) ==
    \E i \in 1..Len(users) :
        users[i].email = body.email /\ users[i].password = body.password

\* app.post('/api/auth/login') (lines 356-369)
AuthLogin(body) ==
    /\ AuthAnswered
    /\ res' = Response("login", IF LoginFinds(body) THEN 200 ELSE 401,
                       body.email, body.password, body)
    /\ UNCHANGED users

NextUsers ==
    \/ \E body \in RegisterBodies : AuthRegister(body)
    \/ \E body \in LoginBodies : AuthLogin(body)

SpecUsers == Init /\ [][NextUsers]_vars

\* the (email, password) pairs of the stored users
Credentials == {<<users[i].email, users[i].password>> : i \in 1..Len(users)}

\* C39: after any sequence of register and login requests no two stored users
\* share an email; a registration with a registered email or with a missing
\* field is answered 400 and leaves users as it is, any other registration is
\* accepted and appends its user, and nothing else changes users; a login is
\* answered 200 exactly when its email and password are those of an accepted
\* registration, and 401 otherwise.
C39_UniqueEmailsAndLogin ==
    /\ [](\A i, j \in 1..Len(users) : users[i].email = users[j].email => i = j)
    /\ [][(res'.route = "register" /\ reqs' # reqs)
          => LET body == res'.body
                 taken == \E i \in 1..Len(users) : users[i].email = body.email
                 missing == \E f \in {"name", "email", "password", "university"} :
                                body[f] \in {Undefined, ""}
             IN IF taken \/ missing
                THEN res'.code = 400 /\ users' = users
                ELSE /\ res'.code = 200
                     /\ Len(users') = Len(users) + 1
                     /\ SubSeq(users', 1, Len(users)) = users
                     /\ users'[Len(users')].email = body.email
                     /\ users'[Len(users')].password = body.password]_vars
    /\ [][(res'.route = "login" /\ reqs' # reqs)
          => /\ users' = users
             /\ res'.code = IF <<res'.user, res'.arg>> \in Credentials THEN 200 ELSE 401]_vars
    /\ [][users' # users => (res'.route = "register" /\ res'.code = 200)]_vars

\* C39 witness: a registration with all its fields was refused because its
\* email is registered, with another password, and two users are stored
C39_Witness ==
    /\ res.route = "register"
    /\ res.code = 400
    /\ \A f \in {"name", "email", "password", "university"} :
           res.body[f] \notin {Undefined, ""}
    /\ Len(users) = 2
    /\ \E i \in 1..Len(users) :
           users[i].email = res.user /\ users[i].password # res.arg
====
